---- MODULE Spec2Model ----
\* The two operator scripts of the network automation framework as state
\* machines: scripts/napalm_backup.py (backup pipeline, SpecBackup) and
\* scripts/netmiko_config.py (config-push pipeline, SpecPush).
\* Every blocking call on a device session or on the filesystem is one step;
\* each such call either returns or raises an exception with some message.
EXTENDS Integers, Sequences, FiniteSets, TLC

\* ---------------------------------------------------------------- bounds
MaxDevices == 2
MaxNow == 3
TicksPerSec == 2
MaxLines == 2

\* ---------------------------------------------------------------- inputs
Hosts == {"r1", "r2"}

\* str(e) of the exception a library or filesystem call raises
Errors == {"timeout"}

Outcomes == {"ok"} \cup Errors

Device(h) == [host |-> h]

DeviceLists == UNION {[1..n -> {Device(h) : h \in Hosts}] : n \in 0..MaxDevices}

\* config/devices.yml as the loader sees it: absent, not YAML, YAML without
\* a 'devices' list, or a list of device records
InventoryFiles ==
    {[state |-> s, devices |-> <<>>] : s \in {"missing", "bad_yaml", "no_devices_key"}}
        \cup {[state |-> "ok", devices |-> d] : d \in DeviceLists}

\* the inventories offered to the push pipeline: n devices, hosts alternating
PushInventoryFiles ==
    {[state |-> s, devices |-> <<>>] : s \in {"missing", "bad_yaml", "no_devices_key"}}
        \cup {[state |-> "ok",
               devices |-> [k \in 1..n |-> Device(IF k % 2 = 1 THEN "r1" ELSE "r2")]]
                 : n \in 0..MaxDevices}

None == [kind |-> "none"]

\* lines of a configuration file as file iteration yields them, each a
\* sequence of characters with its line terminator
Lines ==
    { <<" ", "\n">>,               \* a blank line
      <<"v", "\n">>,               \* a command
      <<" ", "v", " ", "\n">>,     \* an indented command with trailing space
      <<"#", "v", "\n">>,          \* a comment
      <<" ", "#", "\n">> }         \* an indented comment

\* the file the operator names: absent, or up to MaxLines lines
ConfigFiles ==
    {[exists |-> FALSE, lines |-> <<>>]}
        \cup {[exists |-> TRUE, lines |-> l] : l \in UNION {[1..n -> Lines] : n \in 0..MaxLines}}

yes == <<"y", "e", "s">>

\* what the operator types at the confirmation prompt
Confirms ==
    { yes, <<"Y", "E", "S">>, <<"n", "o">>, <<>>, <<"y", "e", "s", " ">> }

NotAsked == <<"?">>

VARIABLES
    inventory_file,  \* content of config/devices.yml
    devices,         \* main: devices
    started,         \* second in which this invocation of the script started
    now,             \* wall clock, in ticks of 1/TicksPerSec second
    pc,              \* position of the single control thread
    i,               \* main: 1-based index of the device of the for loop
    sessions,        \* open device sessions the control thread holds a reference to
    leaked,          \* number of open sessions no variable refers to any more
    results,         \* main: results
    files,           \* the backups/ tree: one record per existing file
    overwritten,     \* history: every write that replaced an existing file
    written,         \* history: files the last backup_device_config call wrote
    timestamp,       \* backup_device_config / backup_configuration: timestamp
    config,          \* backup_device_config: config (is 'startup' non-empty)
    log,             \* ERROR records this invocation wrote to the log
    exitCode,        \* process exit status, -1 while running
    config_file,     \* netmiko main: content of the file the operator named
    commands,        \* netmiko main: commands
    confirm,         \* netmiko main: confirm
    backup_file,     \* netmiko main: backup_file
    calls,           \* history: calls made while processing the current device
    connects         \* history: number of ConnectHandler(...) calls made

vars == <<inventory_file, devices, started, now, pc, i, sessions, leaked, results,
          files, overwritten, written, timestamp, config, log, exitCode,
          config_file, commands, confirm, backup_file, calls, connects>>

pushVars == <<config_file, commands, confirm, backup_file, calls, connects>>

\* ---------------------------------------------------------------- helpers
\* datetime.now().strftime('%Y%m%d_%H%M%S'): the clock cut to whole seconds
strftime(t) == t \div TicksPerSec

hostname == devices[i].host

Session(phase) == [dev |-> i, phase |-> phase]

\* faulty variant: the file name leaves the timestamp out
Path_untimed(h, kind, ts) == [host |-> h, kind |-> kind, ts |-> 0]

Path(h, kind, ts) == [host |-> h, kind |-> kind, ts |-> ts]

Existing(p) == {f \in files : f.path = p}

\* a file of backups/: its path, the second in which the invocation that
\* wrote it started, and the timestamp its writer had taken
File(p, st, ts) == [path |-> p, started |-> st, sec |-> ts]

\* open(path, 'w') + write, by a writer whose timestamp is ts: creates the
\* file, or truncates and replaces it
WriteFile(p, ts) ==
    /\ files' = (files \ Existing(p)) \cup {File(p, started, ts)}
    /\ overwritten' = overwritten \cup
            {[path |-> p, prevStarted |-> f.started, byStarted |-> started,
              prevSec |-> f.sec, bySec |-> ts] : f \in Existing(p)}
    /\ written' = written \cup {p}

FailedCount(rs) == Cardinality({k \in 1..Len(rs) : rs[k].status = "failed"})

\* ------------------------------------------------- napalm_backup.py: main
load_device_inventory ==
    /\ pc = "start"
    /\ CASE inventory_file.state = "ok" ->
                /\ devices' = inventory_file.devices
                /\ pc' = "loop"
                /\ UNCHANGED <<log, exitCode>>
         [] inventory_file.state \in {"missing", "bad_yaml"} ->
                \* except FileNotFoundError / yaml.YAMLError: sys.exit(1)
                /\ log' = log \cup {[msg |-> "inventory", host |-> "", error |-> inventory_file.state]}
                /\ exitCode' = 1
                /\ pc' = "exited"
                /\ UNCHANGED devices
         [] OTHER ->
                \* inventory['devices'] raises KeyError/TypeError, caught nowhere
                /\ exitCode' = 1
                /\ pc' = "exited"
                /\ UNCHANGED <<devices, log>>
    /\ UNCHANGED <<inventory_file, started, now, i, sessions, leaked, results, files,
                   overwritten, written, timestamp, config, pushVars>>

main_next_device ==
    /\ pc = "loop"
    /\ i <= Len(devices)
    /\ pc' = "open"
    /\ written' = {}
    /\ UNCHANGED <<inventory_file, devices, started, now, i, sessions, leaked, results,
                   files, overwritten, timestamp, config, log, exitCode, pushVars>>

\* faulty variant: 'return 0 if success_count > 0 else 1'
main_exit_code_any_success(rs) == IF FailedCount(rs) < Len(rs) THEN 0 ELSE 1

\* 'return 0 if failed_count == 0 else 1'
main_exit_code(rs) == IF FailedCount(rs) = 0 THEN 0 ELSE 1

\* the summary report and sys.exit(main()); the sockets of the process end
\* with it
main_summary ==
    /\ pc = "loop"
    /\ i > Len(devices)
    /\ exitCode' = main_exit_code(results)
    /\ pc' = "exited"
    /\ sessions' = {}
    /\ leaked' = 0
    /\ UNCHANGED <<inventory_file, devices, started, now, i, results,
                   files, overwritten, written, timestamp, config, log, pushVars>>

\* ----------------------------------- napalm_backup.py: backup_device_config
\* return: the locals, device_conn among them, go out of scope with whatever
\* session is still open (stillOpen); main appends the result
backup_return(result, stillOpen) ==
    /\ results' = Append(results, result)
    /\ i' = i + 1
    /\ pc' = "loop"
    /\ timestamp' = -1
    /\ config' = None
    /\ sessions' = {}
    /\ leaked' = leaked + Cardinality(stillOpen)

\* faulty variant: the handler logs and re-raises, which ends the for loop of main
backup_except_reraise(e, stillOpen) ==
    /\ log' = log \cup {[msg |-> "Failed to backup", host |-> hostname, error |-> e]}
    /\ pc' = "exited"
    /\ timestamp' = -1
    /\ config' = None
    /\ sessions' = {}
    /\ leaked' = 0
    /\ UNCHANGED <<results, i>>

\* except Exception as e: log, return the failed result
backup_except(e, stillOpen) ==
    /\ log' = log \cup {[msg |-> "Failed to backup", host |-> hostname, error |-> e]}
    /\ backup_return([status |-> "failed", hostname |-> hostname, error |-> e], stillOpen)

\* the call returned: on to the next statement
backup_goto(next) ==
    /\ pc' = next
    /\ UNCHANGED <<i, results, log, leaked>>

backupFrame == <<inventory_file, devices, started, now, exitCode, pushVars>>

\* get_network_driver, driver(...), device_conn.open()
backup_open ==
    /\ pc = "open"
    /\ \E o \in Outcomes :
          IF o = "ok"
          THEN /\ sessions' = sessions \cup {Session("napalm")}
               /\ backup_goto("get_facts")
               /\ UNCHANGED <<timestamp, config>>
          ELSE backup_except(o, sessions)
    /\ UNCHANGED <<files, overwritten, written, backupFrame>>

backup_get_facts ==
    /\ pc = "get_facts"
    /\ \E o \in Outcomes :
          IF o = "ok"
          THEN /\ backup_goto("get_config")
               /\ UNCHANGED <<sessions, timestamp, config>>
          ELSE backup_except(o, sessions)
    /\ UNCHANGED <<files, overwritten, written, backupFrame>>

\* config['startup'] may be absent or empty
backup_get_config ==
    /\ pc = "get_config"
    /\ \E o \in Outcomes :
          IF o = "ok"
          THEN /\ \E s \in BOOLEAN : config' = [kind |-> "config", startup |-> s]
               /\ backup_goto("write_running")
               /\ UNCHANGED <<sessions, timestamp>>
          ELSE backup_except(o, sessions)
    /\ UNCHANGED <<files, overwritten, written, backupFrame>>

\* timestamp, os.makedirs, write of <host>_running_<timestamp>.cfg
backup_write_running ==
    /\ pc = "write_running"
    /\ \E o \in Outcomes :
          IF o = "ok"
          THEN /\ timestamp' = strftime(now)
               /\ WriteFile(Path(hostname, "running", timestamp'), timestamp')
               /\ backup_goto("write_startup")
               /\ UNCHANGED <<sessions, config>>
          ELSE /\ backup_except(o, sessions)
               /\ UNCHANGED <<files, overwritten, written>>
    /\ UNCHANGED backupFrame

\* if 'startup' in config and config['startup']: write <host>_startup_<timestamp>.cfg
backup_write_startup ==
    /\ pc = "write_startup"
    /\ IF ~config.startup
       THEN /\ backup_goto("write_facts")
            /\ UNCHANGED <<sessions, files, overwritten, written, timestamp, config>>
       ELSE \E o \in Outcomes :
              IF o = "ok"
              THEN /\ WriteFile(Path(hostname, "startup", timestamp), timestamp)
                   /\ backup_goto("write_facts")
                   /\ UNCHANGED <<sessions, timestamp, config>>
              ELSE /\ backup_except(o, sessions)
                   /\ UNCHANGED <<files, overwritten, written>>
    /\ UNCHANGED backupFrame

backup_write_facts ==
    /\ pc = "write_facts"
    /\ \E o \in Outcomes :
          IF o = "ok"
          THEN /\ WriteFile(Path(hostname, "facts", timestamp), timestamp)
               /\ backup_goto("get_interfaces")
               /\ UNCHANGED <<sessions, timestamp, config>>
          ELSE /\ backup_except(o, sessions)
               /\ UNCHANGED <<files, overwritten, written>>
    /\ UNCHANGED backupFrame

backup_get_interfaces ==
    /\ pc = "get_interfaces"
    /\ \E o \in Outcomes :
          IF o = "ok"
          THEN /\ backup_goto("write_interfaces")
               /\ UNCHANGED <<sessions, timestamp, config>>
          ELSE backup_except(o, sessions)
    /\ UNCHANGED <<files, overwritten, written, backupFrame>>

backup_write_interfaces ==
    /\ pc = "write_interfaces"
    /\ \E o \in Outcomes :
          IF o = "ok"
          THEN /\ WriteFile(Path(hostname, "interfaces", timestamp), timestamp)
               /\ backup_goto("close")
               /\ UNCHANGED <<sessions, timestamp, config>>
          ELSE /\ backup_except(o, sessions)
               /\ UNCHANGED <<files, overwritten, written>>
    /\ UNCHANGED backupFrame

\* device_conn.close() and the success result; a close() that raises may or
\* may not have torn the session down
backup_close ==
    /\ pc = "close"
    /\ \E o \in Outcomes :
          IF o = "ok"
          THEN /\ backup_return([status |-> "success", hostname |-> hostname,
                                 timestamp |-> timestamp], {})
               /\ UNCHANGED log
          ELSE \E gone \in BOOLEAN :
                  backup_except(o, IF gone THEN {} ELSE sessions)
    /\ UNCHANGED <<files, overwritten, written, backupFrame>>

\* ---------------------------------------------------------- environment
\* Time passes. backup_device_config reads the clock where it takes its
\* timestamp, so elapsed time is accounted for at that position.
Tick ==
    /\ now < MaxNow
    /\ pc = "write_running"
    /\ now' = now + 1
    /\ UNCHANGED <<inventory_file, devices, started, pc, i, sessions, leaked, results,
                   files, overwritten, written, timestamp, config, log, exitCode,
                   pushVars>>

\* what an earlier invocation that backed up host h left under backups/<h>/
ArtifactSet(h, st, sec, withStartup) ==
    {File(Path(h, k, sec), st, sec) :
        k \in {"running", "facts", "interfaces"}
                \cup (IF withStartup THEN {"startup"} ELSE {})}

\* backups/ when the script starts at tick t: empty, or the artifacts of one
\* earlier backup, whose invocation started no later than its timestamp
BackupTrees(t) ==
    {{}} \cup {ArtifactSet(h, st, sec, su) :
                  h \in Hosts, st \in 0..strftime(t), sec \in 0..strftime(t),
                  su \in BOOLEAN}

InitCommon ==
    /\ devices = <<>>
    /\ started = strftime(now)
    /\ pc = "start"
    /\ i = 1
    /\ sessions = {}
    /\ leaked = 0
    /\ results = <<>>
    /\ overwritten = {}
    /\ written = {}
    /\ timestamp = -1
    /\ config = None
    /\ log = {}
    /\ exitCode = -1
    /\ config_file = None
    /\ commands = <<>>
    /\ confirm = NotAsked
    /\ backup_file = None
    /\ calls = <<>>
    /\ connects = 0

InitBackup ==
    /\ inventory_file \in InventoryFiles
    /\ now \in 0..MaxNow
    /\ files \in {t \in BackupTrees(now) : \A f \in t : f.started <= f.sec}
    /\ InitCommon

NextBackup ==
    \/ load_device_inventory
    \/ main_next_device
    \/ main_summary
    \/ backup_open
    \/ backup_get_facts
    \/ backup_get_config
    \/ backup_write_running
    \/ backup_write_startup
    \/ backup_write_facts
    \/ backup_get_interfaces
    \/ backup_write_interfaces
    \/ backup_close
    \/ Tick

SpecBackup == InitBackup /\ [][NextBackup]_vars

\* ------------------------------------------------ netmiko_config.py: text
IsSpace(c) == c \in {" ", "\n"}

RECURSIVE lstrip(_)
lstrip(s) == IF s # <<>> /\ IsSpace(Head(s)) THEN lstrip(Tail(s)) ELSE s

RECURSIVE rstrip(_)
rstrip(s) == IF s # <<>> /\ IsSpace(s[Len(s)]) THEN rstrip(SubSeq(s, 1, Len(s) - 1)) ELSE s

\* str.strip()
strip(s) == rstrip(lstrip(s))

\* str.startswith, for a one-character prefix
startswith(s, c) == s # <<>> /\ Head(s) = c

LowerChar(c) ==
    CASE c = "Y" -> "y" [] c = "E" -> "e" [] c = "S" -> "s"
      [] c = "N" -> "n" [] c = "O" -> "o" [] OTHER -> c

\* str.lower()
lower(s) == [k \in 1..Len(s) |-> LowerChar(s[k])]

\* [line.strip() for line in f if line.strip() and not line.startswith('#')]
RECURSIVE comprehension(_)
comprehension(lines) ==
    IF lines = <<>> THEN <<>>
    ELSE LET line == Head(lines)
         IN  (IF strip(line) # <<>> /\ ~startswith(line, "#")
              THEN <<strip(line)>> ELSE <<>>) \o comprehension(Tail(lines))

\* faulty variant: the comment test is made on the stripped line
RECURSIVE comprehension_stripped_test(_)
comprehension_stripped_test(lines) ==
    IF lines = <<>> THEN <<>>
    ELSE LET line == Head(lines)
         IN  (IF strip(line) # <<>> /\ ~startswith(strip(line), "#")
              THEN <<strip(line)>> ELSE <<>>) \o comprehension_stripped_test(Tail(lines))

load_configuration_stripped_test(f) ==
    IF f.exists THEN comprehension_stripped_test(f.lines) ELSE <<>>

\* except FileNotFoundError: return []
load_configuration(f) == IF f.exists THEN comprehension(f.lines) ELSE <<>>

\* faulty variant: if confirm.lower() == 'no': return
declined_only_no(c) == lower(c) = <<"n", "o">>

\* if confirm.lower() != 'yes': return
declined(c) == lower(c) # yes

\* ------------------------------------------------ netmiko_config.py: main
pushFrame == <<inventory_file, devices, started, now, config, config_file, commands,
               confirm, exitCode>>

netmiko_load_device_inventory ==
    /\ pc = "start"
    /\ CASE inventory_file.state = "ok" ->
                /\ devices' = inventory_file.devices
                /\ pc' = "input_file"
                /\ UNCHANGED <<log, exitCode>>
         [] inventory_file.state \in {"missing", "bad_yaml"} ->
                /\ log' = log \cup {[msg |-> "inventory", host |-> "", error |-> inventory_file.state]}
                /\ exitCode' = 1
                /\ pc' = "exited"
                /\ UNCHANGED devices
         [] OTHER ->
                /\ exitCode' = 1
                /\ pc' = "exited"
                /\ UNCHANGED <<devices, log>>
    /\ UNCHANGED <<inventory_file, started, now, i, sessions, leaked, results, files,
                   overwritten, written, timestamp, config, pushVars>>

\* faulty variant: main without 'if not commands: return'
netmiko_main_load_configuration_unchecked ==
    /\ pc = "input_file"
    /\ \E f \in ConfigFiles :
          /\ config_file' = f
          /\ commands' = IF f.exists THEN comprehension(f.lines) ELSE <<>>
          /\ log' = log
                \cup (IF f.exists THEN {}
                      ELSE {[msg |-> "Configuration file not found", host |-> "", error |-> ""]})
          /\ pc' = "confirm"
    /\ UNCHANGED <<inventory_file, devices, started, now, i, sessions, leaked, results,
                   files, overwritten, written, timestamp, config, confirm, backup_file,
                   calls, connects, exitCode>>

\* input of the file path, load_configuration, 'if not commands: return'
netmiko_main_load_configuration ==
    /\ pc = "input_file"
    /\ \E f \in ConfigFiles :
          /\ config_file' = f
          /\ commands' = load_configuration(f)
          /\ log' = log
                \cup (IF f.exists THEN {}
                      ELSE {[msg |-> "Configuration file not found", host |-> "", error |-> ""]})
                \cup (IF commands' # <<>> THEN {}
                      ELSE {[msg |-> "No configuration commands loaded", host |-> "", error |-> ""]})
          /\ IF commands' # <<>>
             THEN pc' = "confirm" /\ UNCHANGED exitCode
             ELSE pc' = "exited" /\ exitCode' = 0
    /\ UNCHANGED <<inventory_file, devices, started, now, i, sessions, leaked, results,
                   files, overwritten, written, timestamp, config, confirm, backup_file,
                   calls, connects>>

\* the confirmation prompt
netmiko_main_confirm ==
    /\ pc = "confirm"
    /\ \E c \in Confirms :
          /\ confirm' = c
          /\ IF declined(c)
             THEN pc' = "exited" /\ exitCode' = 0
             ELSE pc' = "loop" /\ UNCHANGED exitCode
    /\ UNCHANGED <<inventory_file, devices, started, now, i, sessions, leaked, results,
                   files, overwritten, written, timestamp, config, log, config_file,
                   commands, backup_file, calls, connects>>

netmiko_main_next_device ==
    /\ pc = "loop"
    /\ i <= Len(devices)
    /\ pc' = "bk_connect"
    /\ calls' = <<>>
    /\ written' = {}
    /\ UNCHANGED <<i, sessions, leaked, results, files, overwritten, timestamp, log,
                   backup_file, connects, pushFrame>>

\* the summary report; main returns None and the process ends with status 0
netmiko_main_summary ==
    /\ pc = "loop"
    /\ i > Len(devices)
    /\ pc' = "exited"
    /\ exitCode' = 0
    /\ sessions' = {}
    /\ leaked' = 0
    /\ UNCHANGED <<inventory_file, devices, started, now, i, results, files, overwritten,
                   written, timestamp, config, log, config_file, commands, confirm,
                   backup_file, calls, connects>>

Call(phase, op, o, arg) == [phase |-> phase, op |-> op, ok |-> (o = "ok"), arg |-> arg]

\* ------------------------------------ netmiko_config.py: backup_configuration
\* return: connection goes out of scope with whatever session is still open
\* (stillOpen); main assigns backup_file and calls configure_device
backup_configuration_return(value, stillOpen) ==
    /\ backup_file' = value
    /\ timestamp' = -1
    /\ sessions' = {}
    /\ leaked' = leaked + Cardinality(stillOpen)
    /\ pc' = "cfg_connect"

\* except Exception as e: log, return None
backup_configuration_except(e, stillOpen) ==
    /\ log' = log \cup {[msg |-> "Failed to backup configuration", host |-> hostname, error |-> e]}
    /\ backup_configuration_return(None, stillOpen)

backup_configuration_goto(next) ==
    /\ pc' = next
    /\ UNCHANGED <<log, backup_file, leaked>>

backup_configuration_connect ==
    /\ pc = "bk_connect"
    /\ connects' = connects + 1
    /\ \E o \in Outcomes :
          /\ calls' = Append(calls, Call("pre", "connect", o, <<>>))
          /\ IF o = "ok"
             THEN /\ sessions' = sessions \cup {Session("pre")}
                  /\ backup_configuration_goto("bk_enable")
                  /\ UNCHANGED timestamp
             ELSE backup_configuration_except(o, sessions)
    /\ UNCHANGED <<i, results, files, overwritten, written, pushFrame>>

backup_configuration_enable ==
    /\ pc = "bk_enable"
    /\ \E o \in Outcomes :
          /\ calls' = Append(calls, Call("pre", "enable", o, <<>>))
          /\ IF o = "ok"
             THEN /\ backup_configuration_goto("bk_send_command")
                  /\ UNCHANGED <<sessions, timestamp>>
             ELSE backup_configuration_except(o, sessions)
    /\ UNCHANGED <<i, results, files, overwritten, written, connects, pushFrame>>

backup_configuration_send_command ==
    /\ pc = "bk_send_command"
    /\ \E o \in Outcomes :
          /\ calls' = Append(calls, Call("pre", "send_command", o, <<"show running-config">>))
          /\ IF o = "ok"
             THEN /\ backup_configuration_goto("bk_write")
                  /\ UNCHANGED <<sessions, timestamp>>
             ELSE backup_configuration_except(o, sessions)
    /\ UNCHANGED <<i, results, files, overwritten, written, connects, pushFrame>>

\* os.makedirs, timestamp, write of backups/<host>_<timestamp>.cfg
backup_configuration_write ==
    /\ pc = "bk_write"
    /\ \E o \in Outcomes :
          /\ calls' = Append(calls, Call("pre", "write", o, <<>>))
          /\ IF o = "ok"
             THEN /\ timestamp' = strftime(now)
                  /\ WriteFile(Path(hostname, "pre", timestamp'), timestamp')
                  /\ backup_configuration_goto("bk_disconnect")
                  /\ UNCHANGED sessions
             ELSE /\ backup_configuration_except(o, sessions)
                  /\ UNCHANGED <<files, overwritten, written>>
    /\ UNCHANGED <<i, results, connects, pushFrame>>

\* connection.disconnect() and 'return backup_file'; a disconnect() that
\* raises may or may not have torn the session down
backup_configuration_disconnect ==
    /\ pc = "bk_disconnect"
    /\ \E o \in Outcomes :
          /\ calls' = Append(calls, Call("pre", "disconnect", o, <<>>))
          /\ IF o = "ok"
             THEN /\ backup_configuration_return(Path(hostname, "pre", timestamp), {})
                  /\ UNCHANGED log
             ELSE \E gone \in BOOLEAN :
                     backup_configuration_except(o, IF gone THEN {} ELSE sessions)
    /\ UNCHANGED <<i, results, files, overwritten, written, connects, pushFrame>>

\* --------------------------------------- netmiko_config.py: configure_device
\* faulty variant: a device without a pre-change backup is reported as failed
configure_device_return_needs_backup(result, stillOpen) ==
    /\ results' = Append(results,
            (IF backup_file = None THEN [status |-> "failed", error |-> "no backup"]
                                   ELSE result)
                @@ [device |-> hostname, backup |-> backup_file])
    /\ i' = i + 1
    /\ sessions' = {}
    /\ leaked' = leaked + Cardinality(stillOpen)
    /\ pc' = "loop"

\* return: connection goes out of scope with whatever session is still open
\* (stillOpen); main sets result['device'], result['backup'] and appends
configure_device_return(result, stillOpen) ==
    /\ results' = Append(results, result @@ [device |-> hostname, backup |-> backup_file])
    /\ i' = i + 1
    /\ sessions' = {}
    /\ leaked' = leaked + Cardinality(stillOpen)
    /\ pc' = "loop"

\* except Exception as e: log, return the failed result
configure_device_except(e, stillOpen) ==
    /\ log' = log \cup {[msg |-> "Failed to configure", host |-> hostname, error |-> e]}
    /\ configure_device_return([status |-> "failed", error |-> e], stillOpen)

configure_device_goto(next) ==
    /\ pc' = next
    /\ UNCHANGED <<i, results, log, leaked>>

configureFrame == <<files, overwritten, written, timestamp, backup_file, pushFrame>>

configure_device_connect ==
    /\ pc = "cfg_connect"
    /\ connects' = connects + 1
    /\ \E o \in Outcomes :
          /\ calls' = Append(calls, Call("push", "connect", o, <<>>))
          /\ IF o = "ok"
             THEN /\ sessions' = sessions \cup {Session("push")}
                  /\ configure_device_goto("cfg_enable")
             ELSE configure_device_except(o, sessions)
    /\ UNCHANGED configureFrame

configure_device_enable ==
    /\ pc = "cfg_enable"
    /\ \E o \in Outcomes :
          /\ calls' = Append(calls, Call("push", "enable", o, <<>>))
          /\ IF o = "ok"
             THEN configure_device_goto("cfg_send_config_set") /\ UNCHANGED sessions
             ELSE configure_device_except(o, sessions)
    /\ UNCHANGED <<connects, configureFrame>>

\* output = connection.send_config_set(commands)
configure_device_send_config_set ==
    /\ pc = "cfg_send_config_set"
    /\ \E o \in Outcomes :
          /\ calls' = Append(calls, Call("push", "send_config_set", o, commands))
          /\ IF o = "ok"
             THEN configure_device_goto("cfg_save_config") /\ UNCHANGED sessions
             ELSE configure_device_except(o, sessions)
    /\ UNCHANGED <<connects, configureFrame>>

configure_device_save_config ==
    /\ pc = "cfg_save_config"
    /\ \E o \in Outcomes :
          /\ calls' = Append(calls, Call("push", "save_config", o, <<>>))
          /\ IF o = "ok"
             THEN configure_device_goto("cfg_disconnect") /\ UNCHANGED sessions
             ELSE configure_device_except(o, sessions)
    /\ UNCHANGED <<connects, configureFrame>>

\* connection.disconnect() and the success result
configure_device_disconnect ==
    /\ pc = "cfg_disconnect"
    /\ \E o \in Outcomes :
          /\ calls' = Append(calls, Call("push", "disconnect", o, <<>>))
          /\ IF o = "ok"
             THEN /\ configure_device_return([status |-> "success", output |-> "output",
                                              save_output |-> "save_output"], {})
                  /\ UNCHANGED log
             ELSE \E gone \in BOOLEAN :
                     configure_device_except(o, IF gone THEN {} ELSE sessions)
    /\ UNCHANGED <<connects, configureFrame>>

InitPush ==
    /\ inventory_file \in PushInventoryFiles
    /\ now = 0
    /\ files = {}
    /\ InitCommon

NextPush ==
    \/ netmiko_load_device_inventory
    \/ netmiko_main_load_configuration
    \/ netmiko_main_confirm
    \/ netmiko_main_next_device
    \/ netmiko_main_summary
    \/ backup_configuration_connect
    \/ backup_configuration_enable
    \/ backup_configuration_send_command
    \/ backup_configuration_write
    \/ backup_configuration_disconnect
    \/ configure_device_connect
    \/ configure_device_enable
    \/ configure_device_send_config_set
    \/ configure_device_save_config
    \/ configure_device_disconnect

SpecPush == InitPush /\ [][NextPush]_vars

\* ================================================================ claims
Last(seq) == seq[Len(seq)]

\* the device whose processing has just ended, while main is between devices
DeviceDone == pc = "loop" /\ i > 1

OpenSessions == Cardinality(sessions) + leaked

\* C1: when backup_device_config returns, successfully or not, no session it
\* opened is still open.
C1_SessionClosedOnReturn ==
    (pc = "loop") => (sessions = {} /\ leaked = 0)

\* C2: a device whose backup raised has a failed result with a non-empty
\* error detail, and the call left no artifact file for that device.
C2_FailedLeavesNoArtifact ==
    (DeviceDone /\ Last(results).status = "failed")
        => (Last(results).error # "" /\ written = {})

\* the send_config_set calls made on the device being processed
SendCalls == SelectSeq(calls, LAMBDA c : c.op = "send_config_set")

\* the push session of the device connected and entered enable mode
PushEnabled ==
    \E k \in 1..Len(calls) :
        calls[k].phase = "push" /\ calls[k].op = "enable" /\ calls[k].ok

\* a line without its line terminator
Chomp(line) ==
    IF line # <<>> /\ line[Len(line)] = "\n" THEN SubSeq(line, 1, Len(line) - 1) ELSE line

IsBlank(line) == \A k \in 1..Len(line) : IsSpace(line[k])

IsComment(line) == line # <<>> /\ line[1] = "#"

\* the lines that are neither blank nor comments, verbatim, in file order
VerbatimLines(f) ==
    LET kept == SelectSeq(f.lines, LAMBDA l : ~IsBlank(l) /\ ~IsComment(l))
    IN  [k \in 1..Len(kept) |-> Chomp(kept[k])]

\* the same lines with their surrounding whitespace removed
StrippedLines(f) ==
    LET kept == SelectSeq(f.lines, LAMBDA l : ~IsBlank(l) /\ ~IsComment(l))
    IN  [k \in 1..Len(kept) |-> strip(kept[k])]

\* C3 as stated: every device receives exactly one send_config_set call whose
\* argument is the non-blank, non-comment lines of the file, verbatim.
C3_Orig_ExactlyOneVerbatimSend ==
    DeviceDone =>
        /\ Len(SendCalls) = 1
        /\ SendCalls[1].arg = VerbatimLines(config_file)

\* C3 as amended: a device receives one send_config_set call if its push
\* session connected and entered enable mode, and none otherwise; the argument
\* of every such call is the whitespace-stripped non-blank lines of the file
\* that do not begin with '#', in file order; once confirmed, the run
\* produces a result for every device of the inventory.
C3_OneStrippedSendPerEnabledDevice ==
    /\ \A k \in 1..Len(SendCalls) : SendCalls[k].arg = StrippedLines(config_file)
    /\ DeviceDone => Len(SendCalls) = (IF PushEnabled THEN 1 ELSE 0)
    /\ (pc = "exited" /\ lower(confirm) = yes) => Len(results) = Len(devices)

C3_Witness ==
    /\ DeviceDone
    /\ i = 3
    /\ Len(SendCalls) = 1
    /\ Len(config_file.lines) > Len(commands)
    /\ VerbatimLines(config_file) # commands

NoDeviceTouched ==
    /\ connects = 0
    /\ sessions = {}
    /\ leaked = 0
    /\ results = <<>>
    /\ calls = <<>>

\* C4 as stated: a confirmation other than the exact token 'yes' opens no
\* session and leaves the result list empty.
C4_Orig_ExactTokenGate ==
    (confirm # NotAsked /\ confirm # yes) => NoDeviceTouched

\* C4 as amended: a confirmation whose lower-cased text is not 'yes' ends the
\* run with no session opened and an empty result list.
C4_CaseInsensitiveGate ==
    (confirm # NotAsked /\ lower(confirm) # yes) => (pc = "exited" /\ NoDeviceTouched)

C4_Witness ==
    /\ confirm = <<"y", "e", "s", " ">>
    /\ Len(devices) = 2
    /\ pc = "exited"

\* C5: the backup run produces one result per inventory device, in inventory
\* order, whatever devices fail; no failure ends the run early.
C5_OneResultPerDeviceInOrder ==
    /\ Len(results) <= Len(devices)
    /\ \A k \in 1..Len(results) : results[k].hostname = devices[k].host
    /\ (pc = "loop") => Len(results) = i - 1
    /\ (pc = "exited" /\ inventory_file.state = "ok") => Len(results) = Len(devices)
    /\ (pc = "exited" /\ inventory_file.state # "ok") => results = <<>>

C5_Witness ==
    /\ pc = "exited"
    /\ Len(results) = 2
    /\ results[1].status = "failed"
    /\ results[2].status = "success"

SomeFailed == \E k \in 1..Len(results) : results[k].status = "failed"

PreFailed == \E k \in 1..Len(calls) : calls[k].phase = "pre" /\ ~calls[k].ok

PushAttempted ==
    \E k \in 1..Len(calls) : calls[k].phase = "push" /\ calls[k].op = "connect"

PushFailed == \E k \in 1..Len(calls) : calls[k].phase = "push" /\ ~calls[k].ok

\* C7: when the pre-change backup of a device fails at any step, the push is
\* still attempted on that device, its result records no backup, and its
\* status is decided by the push calls alone.
C7_BackupFailureDoesNotBlockPush ==
    /\ PreFailed => (backup_file = None /\ pc \notin {"bk_enable", "bk_send_command",
                                                      "bk_write", "bk_disconnect"})
    /\ DeviceDone =>
          /\ PushAttempted
          /\ Last(results).device = devices[i - 1].host
          /\ PreFailed => Last(results).backup = None
          /\ ~PreFailed => Last(results).backup = Path(devices[i - 1].host, "pre", strftime(now))
          /\ (Last(results).status = "success") <=> ~PushFailed

C7_Witness ==
    /\ DeviceDone
    /\ PreFailed
    /\ Last(results).backup = None
    /\ Last(results).status = "success"

\* C8: at every point of a run at most one device session is open.
C8_AtMostOneSessionOpen == OpenSessions <= 1

\* the file named by the operator yields no command: it is absent, or every
\* line of it is blank or begins with '#'
NothingToLoad ==
    /\ config_file # None
    /\ \/ ~config_file.exists
       \/ \A k \in 1..Len(config_file.lines) :
             IsBlank(config_file.lines[k]) \/ IsComment(config_file.lines[k])

\* C9: when the loaded command list is empty the run ends with a logged
\* error, before the confirmation prompt and with no device touched.
C9_EmptyCommandListAborts ==
    NothingToLoad =>
        /\ commands = <<>>
        /\ pc = "exited"
        /\ confirm = NotAsked
        /\ NoDeviceTouched
        /\ files = {}
        /\ \E l \in log : l.msg = "No configuration commands loaded"

C9_Witness ==
    /\ NothingToLoad
    /\ config_file.exists
    /\ Len(config_file.lines) = 2
    /\ Len(devices) = 2
    /\ pc = "exited"

\* C10 as stated: a backup replaces an existing artifact file only when the
\* invocation that wrote it and the invocation replacing it started within
\* the same second.
C10_Orig_OverwriteOnlySameStartSecond ==
    \A o \in overwritten : o.prevStarted = o.byStarted

\* C10 as amended: a backup replaces an existing artifact file only when the
\* two backups of that host took their timestamps within the same second;
\* every file carries the timestamp its writer took.
C10_OverwriteOnlySameTimestamp ==
    /\ \A o \in overwritten : o.prevSec = o.bySec
    /\ \A f \in files : f.path.ts = f.sec

C10_Witness ==
    \E o \in overwritten : o.prevStarted # o.byStarted /\ o.prevSec = o.bySec

====
